---- MODULE Spec2Model ----
(***************************************************************************)
(* Workflow execution engine of src/src/stores/workflowStore.ts.           *)
(*                                                                         *)
(* The engine is asynchronous JavaScript on one event loop.  A step of the *)
(* model is one uninterrupted piece of that code: an entry point (onRun,   *)
(* onPause, onStop, retryNodeInput), or the continuation that runs when a  *)
(* promise settles, each carried on to the next await.  Continuations that *)
(* are already scheduled (microtasks) run before any external event.       *)
(***************************************************************************)
EXTENDS Integers, Sequences, FiniteSets, Bags, TLC

VARIABLES
  graph,           \* useGraphStore / useNodeStore snapshot the run is built from
  workflowStatus,  \* WorkflowStore.workflowStatus
  nodes,           \* WorkflowStore.nodes: id -> [status, inputFormValues, outputValue]
  links,           \* WorkflowStore.links: statuses, in the order of graph.links
  pendingInputs,   \* WorkflowStore.pendingInputs
  activeRun,       \* module variable activeRun: 0 is null, else an index of runs
  runs,            \* every WorkflowRun object created so far
  co,              \* suspended async functions (a bag of records)
  called,          \* the nodes executeNode was called for in the step taken last, in order
  lastOp,          \* the step taken last: [op, id: its node, was: workflowStatus before it]
  lgraph           \* the canvas graph, an LGraph with its nodes' slots

vars == << graph, workflowStatus, nodes, links, pendingInputs, activeRun, runs, co,
           called, lastOp, lgraph >>

(***************************************************************************)
(* Bounds.                                                                 *)
(***************************************************************************)
MaxRuns == 2

\* Executor calls one node may have outstanding at a time (the form can be
\* submitted again and again while earlier calls have not returned).
MaxInFlight == 2

\* Links the canvas graph creates in a behaviour (LGraph.lastLinkId).
MaxLinks == 4

(***************************************************************************)
(* Values.                                                                 *)
(***************************************************************************)
Undefined == "undefined"

PENDING == "PENDING"

DONE == "DONE"

PROGRESSING == "PROGRESSING"

ERROR == "ERROR"

WAITING == "WAITING"

\* What the external executor may resolve with.
ExecResults == {"out"}

\* Two results, so that it shows which node a value came from.
TwoResults == {"out", "alt"}

NoNode == ""

EmptyValues == [ x \in {} |-> "" ]

(***************************************************************************)
(* The canvas graph (litegraph/graph.ts).  Slots count from 1 here and     *)
(* from 0 in the code; linkId 0 stands for undefined.                      *)
(***************************************************************************)
\* The ids LGraph.add gave to the nodes on the canvas.
CanvasNodes == {1, 2}

\* Slots per node, as built by addInput / addOutput.
NumInputs == 2

NumOutputs == 2

\* An LGraph whose nodes have been added and have no links yet.
EmptyLGraph ==
  [ nodes      |-> CanvasNodes,
    links      |-> [ x \in {} |-> 0 ],
    inputs     |-> [ n \in CanvasNodes |-> [ i \in 1..NumInputs |-> 0 ] ],
    outputs    |-> [ n \in CanvasNodes |-> [ i \in 1..NumOutputs |-> << >> ] ],
    lastLinkId |-> 0 ]

\* outputLinks.filter((id) => id !== linkId)
WithoutLink(seq, linkId) == LET T(x) == x # linkId IN SelectSeq(seq, T)

removeLink(g, linkId) ==
  IF linkId \notin DOMAIN g.links THEN g
  ELSE LET link == g.links[linkId]
           g1 == IF link.fromNodeId \in g.nodes
                   THEN [g EXCEPT !.outputs[link.fromNodeId][link.fromSlot] =
                                     WithoutLink(@, linkId)]
                   ELSE g
           g2 == IF link.toNodeId \in g1.nodes
                      /\ g1.inputs[link.toNodeId][link.toSlot] = linkId
                   THEN [g1 EXCEPT !.inputs[link.toNodeId][link.toSlot] = 0]
                   ELSE g1
       IN  [g2 EXCEPT !.links = [ x \in DOMAIN @ \ {linkId} |-> @[x] ]]

\* connect that adds the new link without removing the one the slot has.
connectKeepsOld(g, fromNode, fromSlot, toNode, toSlot) ==
  LET linkId == g.lastLinkId + 1
      link == [ id |-> linkId, fromNodeId |-> fromNode, fromSlot |-> fromSlot,
                toNodeId |-> toNode, toSlot |-> toSlot ]
  IN  [g EXCEPT !.lastLinkId = linkId,
                !.links = (linkId :> link) @@ @,
                !.outputs[fromNode][fromSlot] = Append(@, linkId),
                !.inputs[toNode][toSlot] = linkId]

connect(g, fromNode, fromSlot, toNode, toSlot) ==
  LET existingLinkId == g.inputs[toNode][toSlot]
      g1 == IF existingLinkId # 0 THEN removeLink(g, existingLinkId) ELSE g
      linkId == g1.lastLinkId + 1
      link == [ id |-> linkId, fromNodeId |-> fromNode, fromSlot |-> fromSlot,
                toNodeId |-> toNode, toSlot |-> toSlot ]
  IN  [g1 EXCEPT !.lastLinkId = linkId,
                 !.links = (linkId :> link) @@ @,
                 !.outputs[fromNode][fromSlot] = Append(@, linkId),
                 !.inputs[toNode][toSlot] = linkId]

(***************************************************************************)
(* Graph snapshots.  inputs[n] is the definition's ordered input ports.    *)
(***************************************************************************)
Port(name, required) == [name |-> name, required |-> required]

Link(from, to, slot) == [fromNodeId |-> from, toNodeId |-> to, toSlot |-> slot]

\* s: root without inputs; n: root with a required input form; j joins n
\* (slot 1, optional port a) and s (slot 2, required port b).
JoinGraph ==
  [ nodes  |-> << "s", "n", "j" >>,
    links  |-> << Link("n", "j", 1), Link("s", "j", 2) >>,
    inputs |-> [ x \in {"s", "n", "j"} |->
                 CASE x = "s" -> << >>
                   [] x = "n" -> << Port("a", TRUE) >>
                   [] x = "j" -> << Port("a", FALSE), Port("b", TRUE) >> ],
    properties |-> [ x \in {"n", "j"} |-> [ mode |-> x ] ] ]

\* Three roots: s without inputs, n and m each with a required input form.
RootsGraph ==
  [ nodes  |-> << "s", "n", "m" >>,
    links  |-> << >>,
    inputs |-> [ x \in {"s", "n", "m"} |->
                 IF x = "s" THEN << >> ELSE << Port("a", TRUE) >> ] ]

\* Scenario A / C: s -> t, s has no inputs.
ChainGraph ==
  [ nodes  |-> << "s", "t" >>,
    links  |-> << Link("s", "t", 1) >>,
    inputs |-> [ x \in {"s", "t"} |->
                 IF x = "s" THEN << >> ELSE << Port("a", TRUE) >> ] ]

\* Scenario B with a dependent: n -> t, n has a required input form.
FormChainGraph ==
  [ nodes  |-> << "n", "t" >>,
    links  |-> << Link("n", "t", 1) >>,
    inputs |-> [ x \in {"n", "t"} |-> << Port("a", TRUE) >> ] ]

\* Two joins in a row beside a lone root: s and n feed j; r and j feed t; q
\* stands alone.  s, r and q have no inputs, n has a required input form.
FanGraph ==
  [ nodes  |-> << "s", "r", "q", "n", "j", "t" >>,
    links  |-> << Link("n", "j", 1), Link("s", "j", 2), Link("r", "t", 1),
                  Link("j", "t", 2) >>,
    inputs |-> [ x \in {"s", "r", "q", "n", "j", "t"} |->
                 CASE x \in {"s", "r", "q"} -> << >>
                   [] x = "n"               -> << Port("a", TRUE) >>
                   [] OTHER                 -> << Port("a", FALSE), Port("b", TRUE) >> ] ]

\* s -> t -> u where the link supplies t's port a and nothing supplies its
\* required port b.
PartialGraph ==
  [ nodes  |-> << "s", "t", "u" >>,
    links  |-> << Link("s", "t", 1), Link("t", "u", 1) >>,
    inputs |-> [ x \in {"s", "t", "u"} |->
                 CASE x = "s" -> << >>
                   [] x = "t" -> << Port("a", TRUE), Port("b", TRUE) >>
                   [] x = "u" -> << Port("a", TRUE) >> ] ]

\* Two chains sharing no links: n -> t, where n has a required input form,
\* and s -> u, where s has no inputs.
TwoChainsGraph ==
  [ nodes  |-> << "n", "t", "s", "u" >>,
    links  |-> << Link("n", "t", 1), Link("s", "u", 1) >>,
    inputs |-> [ x \in {"n", "t", "s", "u"} |->
                 IF x = "s" THEN << >> ELSE << Port("a", TRUE) >> ] ]

\* Links whose other end is not in the node list: x -> t has no source, and
\* s -> y has no target.  s has no inputs, t an optional port.
DanglingGraph ==
  [ nodes  |-> << "s", "t" >>,
    links  |-> << Link("x", "t", 1), Link("s", "y", 1) >>,
    inputs |-> [ x \in {"s", "t"} |->
                 IF x = "s" THEN << >> ELSE << Port("a", FALSE) >> ] ]

\* Two roots with a required input form each feed the two ports of j.
FormsJoinGraph ==
  [ nodes  |-> << "n", "m", "j" >>,
    links  |-> << Link("n", "j", 1), Link("m", "j", 2) >>,
    inputs |-> [ x \in {"n", "m", "j"} |->
                 IF x = "j" THEN << Port("a", TRUE), Port("b", TRUE) >>
                            ELSE << Port("a", TRUE) >> ],
    properties |-> [ x \in {"n", "m", "j"} |-> [ mode |-> x ] ] ]

Graphs == { ChainGraph, FormChainGraph, JoinGraph, PartialGraph, DanglingGraph }

Range(seq) == { seq[i] : i \in 1..Len(seq) }

NodeIds(g) == Range(g.nodes)

\* node.properties ?? {}
properties(g, id) ==
  IF "properties" \in DOMAIN g
    THEN (IF id \in DOMAIN g.properties THEN g.properties[id] ELSE EmptyValues)
    ELSE EmptyValues

\* run.incoming.get(id) ?? []
incoming(g, id) == LET T(l) == l.toNodeId = id IN SelectSeq(g.links, T)

\* run.outgoing.get(id) ?? []
outgoing(g, id) == LET T(l) == l.fromNodeId = id IN SelectSeq(g.links, T)

toInputForms(g, id) ==
  LET inputs == IF id \in DOMAIN g.inputs THEN g.inputs[id] ELSE << >>
  IN  IF Len(inputs) > 0 THEN << inputs >> ELSE << >>

IsBlank(value) == value \in {Undefined, "null", "", " "}

getRequiredMissing(forms, values) ==
  \E f \in 1..Len(forms) :
    \E i \in 1..Len(forms[f]) :
      LET input == forms[f][i]
      IN  /\ input.required
          /\ \/ input.name \notin DOMAIN values
             \/ IsBlank(values[input.name])

RECURSIVE buildValues(_, _, _, _)
buildValues(g, id, results, ls) ==
  IF ls = << >> THEN EmptyValues
  ELSE LET link == Head(ls)
           rest == buildValues(g, id, results, Tail(ls))
           ports == IF id \in DOMAIN g.inputs THEN g.inputs[id] ELSE << >>
       IN  IF link.toSlot \notin 1..Len(ports) THEN rest
           ELSE IF link.fromNodeId \notin DOMAIN results THEN rest
           ELSE IF results[link.fromNodeId] = Undefined THEN rest
           ELSE IF ports[link.toSlot].name \in DOMAIN rest THEN rest
           ELSE (ports[link.toSlot].name :> results[link.fromNodeId]) @@ rest

(***************************************************************************)
(* The mutable state as one record, so that a handler's statements compose. *)
(***************************************************************************)
Cur ==
  [ ws |-> workflowStatus, nodes |-> nodes, links |-> links, pend |-> pendingInputs,
    active |-> activeRun, runs |-> runs, co |-> co, called |-> << >> ]

\* A suspended async function.  k: "main" (executeWorkflow awaiting its start
\* tasks), "runQueue" (runQueue awaiting a batch), "start" / "batch" (a task of
\* those), "pend" (processPendingInputs awaiting executeNodeWithInputs),
\* "retry" (retryNodeInput), "drain" (retryNodeInput awaiting a drained node).
\* r: the run it captured; n: the node being executed; rn: retryNodeInput's
\* node; pc: "fill" | "fillRej" | "exec" | "all", or for "pend" the outcome
\* executeNodeWithInputs returned with ("success" | "error" | "waiting"), the
\* loop not having gone on yet; vals: the executor's input.
Co(k, r, n, rn, pc, vals) ==
  [ k |-> k, r |-> r, n |-> n, rn |-> rn, pc |-> pc, vals |-> vals,
    props |-> EmptyValues ]

\* The function holds the node snapshot it was called with; props is that
\* snapshot's propertyValues, which it passes to the executor.
Holding(c, node) == [c EXCEPT !.props = node.propertyValues]

AddCo(s, c) == [s EXCEPT !.co = @ (+) SetToBag({c})]

DelCo(s, c) == [s EXCEPT !.co = @ (-) SetToBag({c})]

Cos(s) == BagToSet(s.co)

SetStatus(s, id, status) == [s EXCEPT !.nodes[id].status = status]

SetLinksDone(s, id) ==
  [s EXCEPT !.links = [ i \in 1..Len(graph.links) |->
                        IF graph.links[i].fromNodeId = id THEN DONE ELSE @[i] ]]

upsertPendingInput(items, nextItem) ==
  IF \A i \in 1..Len(items) : items[i].nodeId # nextItem.nodeId
    THEN Append(items, nextItem)
    ELSE [ i \in 1..Len(items) |->
           IF items[i].nodeId = nextItem.nodeId THEN nextItem ELSE items[i] ]

updatePendingInputStatus(items, nodeId, status) ==
  [ i \in 1..Len(items) |->
    IF items[i].nodeId = nodeId THEN [items[i] EXCEPT !.status = status] ELSE items[i] ]

\* useWorkflowInputModal.fillWorkflowInputs: the outstanding request, whichever
\* node it is for, is rejected ("replaced"); the new one becomes pendingRef.
fillWorkflowInputs(s, c) ==
  LET old == { x \in Cos(s) : x.pc = "fill" }
      rej == { [x EXCEPT !.pc = "fillRej"] : x \in old }
  IN  [s EXCEPT !.co = ((@ (-) SetToBag(old)) (+) SetToBag(rej)) (+) SetToBag({c})]

\* getState().executeNode(...): the external executor is called for node id.
executeNode(s, id) == [s EXCEPT !.called = Append(@, id)]

\* buildFormValueFromOutputs that counts the slots from the wrong end.
buildFormValueSwappedSlots(id, run) ==
  LET ls == incoming(graph, id)
      np == IF id \in DOMAIN graph.inputs THEN Len(graph.inputs[id]) ELSE 0
  IN  buildValues(graph, id, run.results,
                  [ i \in 1..Len(ls) |-> [ls[i] EXCEPT !.toSlot = np + 1 - @] ])

buildFormValueFromOutputs(id, run) ==
  buildValues(graph, id, run.results, incoming(graph, id))

\* executeNodeWithInputs up to its first await.  out: "await" (suspended, a
\* coroutine was added) or "error" (returned at once).
executeNodeWithInputs(s, id, k, r, rn) ==
  IF s.active = 0 THEN [s |-> s, out |-> "error"]
  ELSE
    LET inputForms == toInputForms(graph, id)
        formValue == buildFormValueFromOutputs(id, s.runs[s.active])
        hasIncoming == Len(incoming(graph, id)) > 0
    IN  IF hasIncoming THEN
          IF Len(inputForms) > 0 /\ getRequiredMissing(inputForms, formValue)
            THEN [s |-> SetStatus(s, id, ERROR), out |-> "error"]
            ELSE [s |-> AddCo(executeNode(
                          [s EXCEPT !.nodes[id].status = PROGRESSING,
                                    !.nodes[id].inputFormValues = formValue], id),
                          Holding(Co(k, r, id, rn, "exec", formValue), s.nodes[id])),
                  out |-> "await"]
        ELSE IF Len(inputForms) = 0 THEN
          [s |-> AddCo(executeNode(SetStatus(s, id, PROGRESSING), id),
                       Holding(Co(k, r, id, rn, "exec", EmptyValues), s.nodes[id])),
           out |-> "await"]
        ELSE
          [s |-> fillWorkflowInputs(
                   [s EXCEPT !.nodes[id].status = PROGRESSING,
                             !.pend = upsertPendingInput(@,
                                [nodeId |-> id, status |-> "pending",
                                 formValue |-> << formValue >>])],
                   Holding(Co(k, r, id, rn, "fill", EmptyValues), s.nodes[id])),
           out |-> "await"]

RECURSIVE decrementDeps(_, _, _)
\* nextLinks.forEach(...) of handleNodeSuccess and of retryNodeInput.
decrementDeps(s, r, ls) ==
  IF ls = << >> THEN s
  ELSE LET to == Head(ls).toNodeId
           deps == s.runs[r].remainingDeps
           nextCount == (IF to \in DOMAIN deps THEN deps[to] ELSE 0) - 1
           s1 == [s EXCEPT !.runs[r].remainingDeps = (to :> nextCount) @@ @,
                           !.runs[r].queue =
                              IF nextCount = 0 THEN Append(@, to) ELSE @]
       IN  decrementDeps(s1, r, Tail(ls))

RECURSIVE launchBatch(_, _, _)
\* batch.map(async (nodeId) => ...): every task runs to its first await.
launchBatch(s, batch, r) ==
  IF batch = << >> THEN s
  ELSE launchBatch(
         IF Head(batch) \in DOMAIN s.nodes
           THEN executeNodeWithInputs(s, Head(batch), "batch", r, NoNode).s
           ELSE s,
         Tail(batch), r)

\* runQueue that sets the status to "stopped" at its end whatever it was.
runQueueLoopStopsAlways(s, r) ==
  IF Len(s.runs[r].queue) = 0
    THEN [s EXCEPT !.runs[r].isRunning = FALSE, !.ws = "stopped"]
  ELSE IF s.ws # "progressing"
    THEN [s EXCEPT !.runs[r].isRunning = FALSE]
  ELSE AddCo(launchBatch([s EXCEPT !.runs[r].queue = << >>], s.runs[r].queue, r),
             Co("runQueue", r, NoNode, NoNode, "all", EmptyValues))

\* The while loop of runQueue, from its head to the next await or return.
runQueueLoop(s, r) ==
  IF Len(s.runs[r].queue) = 0
    THEN [s EXCEPT !.runs[r].isRunning = FALSE,
                   !.ws = IF @ = "progressing" THEN "stopped" ELSE @]
  ELSE IF s.ws # "progressing"
    THEN [s EXCEPT !.runs[r].isRunning = FALSE]
  ELSE AddCo(launchBatch([s EXCEPT !.runs[r].queue = << >>], s.runs[r].queue, r),
             Co("runQueue", r, NoNode, NoNode, "all", EmptyValues))

runQueue(s) ==
  IF s.active = 0 THEN s
  ELSE IF s.runs[s.active].isRunning THEN s
  ELSE runQueueLoop([s EXCEPT !.runs[s.active].isRunning = TRUE], s.active)

handleNodeSuccess(s, id) ==
  IF s.active = 0 THEN s
  ELSE LET s1 == decrementDeps(s, s.active, outgoing(graph, id))
       IN  IF ~s1.runs[s1.active].isRunning /\ Len(s1.runs[s1.active].queue) > 0
             THEN runQueue(s1)
             ELSE s1

\* A catch block that sets the status and leaves pendingInputs alone.
catchStatusOnly(s, id) ==
  [s EXCEPT !.nodes[id].status = WAITING]

\* The catch block of executeNodeWithInputs (lines 216-224) and the one of
\* retryNodeInput (lines 575-582): the same two writes.
catchToWaiting(s, id) ==
  [s EXCEPT !.nodes[id].status = WAITING,
            !.pend = updatePendingInputStatus(@, id, "waiting")]

IsFormBranch(id) ==
  Len(incoming(graph, id)) = 0 /\ Len(toInputForms(graph, id)) > 0

\* executeNodeWithInputs after `await executeNode(...)` resolved with result.
\* activeRun is read again here: null throws a TypeError, which only the
\* form branch catches.  out: "success" | "throw" | "waiting".
resolveExec(s, c, result) ==
  IF IsFormBranch(c.n) THEN
    IF s.active = 0 THEN [s |-> catchToWaiting(s, c.n), out |-> "waiting"]
    ELSE [s |-> SetLinksDone(
                  [s EXCEPT !.runs[s.active].results = (c.n :> result) @@ @,
                            !.nodes[c.n].status = DONE,
                            !.nodes[c.n].inputFormValues = c.vals,
                            !.nodes[c.n].outputValue = result,
                            !.pend = updatePendingInputStatus(@, c.n, "done")], c.n),
          out |-> "success"]
  ELSE
    IF s.active = 0 THEN [s |-> s, out |-> "throw"]
    ELSE [s |-> SetLinksDone(
                  [s EXCEPT !.runs[s.active].results = (c.n :> result) @@ @,
                            !.nodes[c.n].status = DONE,
                            !.nodes[c.n].outputValue = result], c.n),
          out |-> "success"]

\* executeNodeWithInputs after an awaited promise rejected (the executor's,
\* or the Input Resolver's).
rejectExec(s, c) ==
  IF IsFormBranch(c.n) THEN [s |-> catchToWaiting(s, c.n), out |-> "waiting"]
  ELSE [s |-> s, out |-> "throw"]

RECURSIVE processPendingInputsLoop(_)
\* The `while (true)` of processPendingInputs, from its head to the next await.
processPendingInputsLoop(s) ==
  LET idx == { i \in 1..Len(s.pend) : s.pend[i].status = "pending" }
  IN  IF idx = {} THEN s
      ELSE LET first == CHOOSE i \in idx : \A j \in idx : i <= j
               id == s.pend[first].nodeId
           IN  IF id \notin DOMAIN s.nodes THEN s
               ELSE LET res == executeNodeWithInputs(s, id, "pend", 0, NoNode)
                    IN  IF res.out = "await" THEN res.s
                        ELSE IF res.s.ws # "progressing" THEN res.s
                        ELSE processPendingInputsLoop(res.s)

processPendingInputs(s) ==
  IF s.ws # "progressing" THEN s ELSE processPendingInputsLoop(s)

\* processPendingInputs from the return of executeNodeWithInputs on.
processPendingInputsNext(s, id, out) ==
  LET s1 == IF out = "success" THEN handleNodeSuccess(s, id) ELSE s
  IN  IF s1.ws # "progressing" THEN s1 ELSE processPendingInputsLoop(s1)

RECURSIVE drainLoop(_, _, _)
\* The drain of retryNodeInput (lines 551-573), from the loop head to the
\* next await; it does not read workflowStatus.
drainLoop(s, r, rn) ==
  IF Len(s.runs[r].queue) = 0 THEN [s EXCEPT !.runs[r].isRunning = FALSE]
  ELSE LET nextNodeId == Head(s.runs[r].queue)
           s1 == [s EXCEPT !.runs[r].queue = Tail(@)]
       IN  IF nextNodeId \notin DOMAIN s1.nodes THEN drainLoop(s1, r, rn)
           ELSE LET res == executeNodeWithInputs(s1, nextNodeId, "drain", r, rn)
                IN  IF res.out = "await" THEN res.s ELSE drainLoop(res.s, r, rn)

DropCo(s, k, r) == DelCo(s, Co(k, r, NoNode, NoNode, "all", EmptyValues))

\* What the caller of executeNodeWithInputs does with its outcome.
afterTask(s, c, out) ==
  CASE c.k = "start" ->
         IF out = "success" THEN handleNodeSuccess(s, c.n)
         ELSE IF out = "throw" THEN DropCo(s, "main", c.r)
         ELSE s
    [] c.k = "batch" ->
         IF out = "success" THEN handleNodeSuccess(s, c.n)
         ELSE IF out = "throw" THEN DropCo(s, "runQueue", c.r)
         ELSE s
    [] c.k = "pend" ->
         IF out = "throw" THEN s
         ELSE AddCo(s, [c EXCEPT !.pc = out, !.vals = EmptyValues])
    [] c.k = "drain" ->
         IF out = "success"
           THEN drainLoop(decrementDeps(s, c.r, outgoing(graph, c.n)), c.r, c.rn)
         ELSE IF out = "throw" THEN catchToWaiting(s, c.rn)
         ELSE drainLoop(s, c.r, c.rn)

\* executeNodeWithInputs (form branch) after fillWorkflowInputs resolved.
afterFill(s, c, values) ==
  IF getRequiredMissing(toInputForms(graph, c.n), values)
    THEN afterTask(SetStatus(s, c.n, ERROR), c, "error")
    ELSE AddCo(executeNode(s, c.n), [c EXCEPT !.pc = "exec", !.vals = values])

\* retryNodeInput up to `await run.fillWorkflowInputs(...)`.
retryNodeInput(s, nodeId) ==
  IF s.active = 0 THEN s
  ELSE IF nodeId \notin DOMAIN s.nodes THEN s
  ELSE IF Len(incoming(graph, nodeId)) > 0 THEN s
  ELSE
    LET found == { i \in 1..Len(s.pend) : s.pend[i].nodeId = nodeId }
        formValue ==
          IF found # {} /\ (\E i \in found : s.pend[i].formValue # << >>)
            THEN (CHOOSE x \in { s.pend[i].formValue : i \in found } : x # << >>)[1]
            ELSE buildFormValueFromOutputs(nodeId, s.runs[s.active])
    IN  fillWorkflowInputs(
          [s EXCEPT !.nodes[nodeId].status = PROGRESSING,
                    !.pend = upsertPendingInput(@,
                       [nodeId |-> nodeId, status |-> "pending",
                        formValue |-> << formValue >>])],
          Holding(Co("retry", s.active, nodeId, nodeId, "fill", EmptyValues),
                  s.nodes[nodeId]))

\* retryNodeInput that calls the executor although the required-field check
\* failed.
retryAfterFillCallsExecutor(s, c, values) ==
  IF getRequiredMissing(toInputForms(graph, c.n), values)
    THEN executeNode(SetStatus(s, c.n, ERROR), c.n)
    ELSE AddCo(executeNode(s, c.n), [c EXCEPT !.pc = "exec", !.vals = values])

\* retryNodeInput after fillWorkflowInputs resolved.
retryAfterFill(s, c, values) ==
  IF getRequiredMissing(toInputForms(graph, c.n), values)
    THEN SetStatus(s, c.n, ERROR)
    ELSE AddCo(executeNode(s, c.n), [c EXCEPT !.pc = "exec", !.vals = values])

\* retryNodeInput that drains the queue whether or not a loop is running.
retryAfterExecAlwaysDrains(s, c, result) ==
  LET s1 == SetLinksDone(
              [s EXCEPT !.runs[c.r].results = (c.n :> result) @@ @,
                        !.nodes[c.n].status = DONE,
                        !.nodes[c.n].inputFormValues = c.vals,
                        !.nodes[c.n].outputValue = result,
                        !.pend = updatePendingInputStatus(@, c.n, "done")], c.n)
      s2 == decrementDeps(s1, c.r, outgoing(graph, c.n))
  IN  drainLoop([s2 EXCEPT !.runs[c.r].isRunning = TRUE], c.r, c.n)

\* retryNodeInput after `await executeNode(...)` resolved (lines 520-574).
retryAfterExec(s, c, result) ==
  LET s1 == SetLinksDone(
              [s EXCEPT !.runs[c.r].results = (c.n :> result) @@ @,
                        !.nodes[c.n].status = DONE,
                        !.nodes[c.n].inputFormValues = c.vals,
                        !.nodes[c.n].outputValue = result,
                        !.pend = updatePendingInputStatus(@, c.n, "done")], c.n)
      s2 == decrementDeps(s1, c.r, outgoing(graph, c.n))
  IN  IF ~s2.runs[c.r].isRunning
        THEN drainLoop([s2 EXCEPT !.runs[c.r].isRunning = TRUE], c.r, c.n)
        ELSE s2

RECURSIVE launchStart(_, _, _)
\* startNoInputNodeIds.map(async (nodeId) => ...)
launchStart(s, ids, r) ==
  IF ids = << >> THEN s
  ELSE launchStart(executeNodeWithInputs(s, Head(ids), "start", r, NoNode).s, Tail(ids), r)

\* executeWorkflow that takes the counters and results of the previous run
\* over instead of building them anew.
executeWorkflowKeepsCounters(s) ==
  LET ids == NodeIds(graph)
      IsRoot(id) == Len(incoming(graph, id)) = 0
      HasForm(id) == Len(toInputForms(graph, id)) > 0
      queue == SelectSeq(graph.nodes, IsRoot)
      IsStartInput(id) == IsRoot(id) /\ HasForm(id)
      IsStartNoInput(id) == IsRoot(id) /\ ~HasForm(id)
      startInputNodeIds == SelectSeq(queue, IsStartInput)
      startNoInputNodeIds == SelectSeq(queue, IsStartNoInput)
      r == Len(s.runs) + 1
      run == IF Len(s.runs) > 0
               THEN [ s.runs[Len(s.runs)] EXCEPT !.queue = << >>, !.isRunning = FALSE ]
               ELSE [ remainingDeps |-> [ id \in ids |-> Len(incoming(graph, id)) ],
                      results |-> EmptyValues,
                      queue |-> << >>,
                      isRunning |-> FALSE ]
      s1 == [s EXCEPT
               !.nodes = [ id \in ids |->
                           [ status |-> IF IsStartInput(id) THEN WAITING ELSE PENDING,
                             inputFormValues |-> EmptyValues,
                             propertyValues |-> properties(graph, id),
                             outputValue |-> Undefined ] ],
               !.links = [ i \in 1..Len(graph.links) |-> PENDING ],
               !.pend = [ i \in 1..Len(startInputNodeIds) |->
                          [ nodeId |-> startInputNodeIds[i], status |-> "pending",
                            formValue |-> << >> ] ],
               !.active = r,
               !.runs = Append(@, run),
               !.ws = "progressing"]
      s2 == launchStart(s1, startNoInputNodeIds, r)
      s3 == processPendingInputs(s2)
  IN  AddCo(s3, Co("main", r, NoNode, NoNode, "all", EmptyValues))

\* executeWorkflow up to `await Promise.all(startNoInputTasks)`.
executeWorkflow(s) ==
  LET ids == NodeIds(graph)
      IsRoot(id) == Len(incoming(graph, id)) = 0
      HasForm(id) == Len(toInputForms(graph, id)) > 0
      queue == SelectSeq(graph.nodes, IsRoot)
      IsStartInput(id) == IsRoot(id) /\ HasForm(id)
      IsStartNoInput(id) == IsRoot(id) /\ ~HasForm(id)
      startInputNodeIds == SelectSeq(queue, IsStartInput)
      startNoInputNodeIds == SelectSeq(queue, IsStartNoInput)
      r == Len(s.runs) + 1
      run == [ remainingDeps |-> [ id \in ids |-> Len(incoming(graph, id)) ],
               results |-> EmptyValues,
               queue |-> << >>,
               isRunning |-> FALSE ]
      s1 == [s EXCEPT
               !.nodes = [ id \in ids |->
                           [ status |-> IF IsStartInput(id) THEN WAITING ELSE PENDING,
                             inputFormValues |-> EmptyValues,
                             propertyValues |-> properties(graph, id),
                             outputValue |-> Undefined ] ],
               !.links = [ i \in 1..Len(graph.links) |-> PENDING ],
               !.pend = [ i \in 1..Len(startInputNodeIds) |->
                          [ nodeId |-> startInputNodeIds[i], status |-> "pending",
                            formValue |-> << >> ] ],
               !.active = r,
               !.runs = Append(@, run),
               !.ws = "progressing"]
      s2 == launchStart(s1, startNoInputNodeIds, r)
      s3 == processPendingInputs(s2)
  IN  AddCo(s3, Co("main", r, NoNode, NoNode, "all", EmptyValues))

\* onStop that forgets to empty pendingInputs and to discard the active run.
onStopStateKeepsRun(s) ==
  [s EXCEPT !.ws = "stopped",
            !.nodes = [ id \in DOMAIN @ |->
                        [ s.nodes[id] EXCEPT !.status = PENDING,
                                             !.inputFormValues = EmptyValues,
                                             !.outputValue = Undefined ] ],
            !.links = [ i \in 1..Len(@) |-> PENDING ]]

onStopState(s) ==
  [s EXCEPT !.active = 0,
            !.ws = "stopped",
            !.pend = << >>,
            !.nodes = [ id \in DOMAIN @ |->
                        [ s.nodes[id] EXCEPT !.status = PENDING,
                                             !.inputFormValues = EmptyValues,
                                             !.outputValue = Undefined ] ],
            !.links = [ i \in 1..Len(@) |-> PENDING ]]

(***************************************************************************)
(* Steps.                                                                  *)
(***************************************************************************)
Commit(t, op, id) ==
  /\ workflowStatus' = t.ws
  /\ nodes' = t.nodes
  /\ links' = t.links
  /\ pendingInputs' = t.pend
  /\ activeRun' = t.active
  /\ runs' = t.runs
  /\ co' = t.co
  /\ called' = t.called
  /\ lastOp' = [op |-> op, id |-> id, was |-> workflowStatus]
  /\ graph' = graph
  /\ lgraph' = lgraph

Children(k, r) == { c \in BagToSet(co) : c.k = k /\ c.r = r }

\* A continuation is already scheduled: a replaced Input Resolver promise, or
\* a Promise.all whose tasks have all fulfilled.
MainReady(c) == c.k = "main" /\ Children("start", c.r) = {}

RunQueueReady(c) == c.k = "runQueue" /\ Children("batch", c.r) = {}

PendReady(c) == c.k = "pend" /\ c.pc \in {"success", "error", "waiting"}

Quiescent ==
  \A c \in BagToSet(co) :
    c.pc # "fillRej" /\ ~MainReady(c) /\ ~RunQueueReady(c) /\ ~PendReady(c)

\* Outstanding executor calls for node id.
InFlight(id) ==
  LET S == { c \in BagToSet(co) : c.pc = "exec" /\ c.n = id }
      RECURSIVE Sum(_)
      Sum(T) == IF T = {} THEN 0
                ELSE LET x == CHOOSE x \in T : TRUE IN CopiesIn(x, co) + Sum(T \ {x})
  IN  Sum(S)

\* What the Input Resolver may resolve with for node id: every field filled,
\* or every field left blank.
PortNames(id) == { graph.inputs[id][i].name : i \in 1..Len(graph.inputs[id]) }

ValidValues(id) == { [ x \in PortNames(id) |-> "v" ] }

SubmitValues(id) == ValidValues(id) \cup { [ x \in PortNames(id) |-> "" ] }

\* onRun, with at most limit runs started in a behaviour.
onRunWithin(limit) ==
  /\ Quiescent
  /\ IF workflowStatus = "paused"
       THEN Commit(runQueue([Cur EXCEPT !.ws = "progressing"]), "onRun", NoNode)
     ELSE IF workflowStatus = "progressing"
       THEN Commit(Cur, "onRun", NoNode)
     ELSE /\ Len(runs) < limit
          /\ Commit(executeWorkflow(Cur), "onRun", NoNode)

onRun == onRunWithin(MaxRuns)

onRunOnce == onRunWithin(MaxRuns - 1)

\* onPause without its status guard.
onPauseUnguarded ==
  /\ Quiescent
  /\ Commit([Cur EXCEPT !.ws = "paused"], "onPause", NoNode)

\* onPause with its guard the wrong way round.
onPauseInverted ==
  /\ Quiescent
  /\ IF workflowStatus = "progressing"
       THEN Commit(Cur, "onPause", NoNode)
       ELSE Commit([Cur EXCEPT !.ws = "paused"], "onPause", NoNode)

onPause ==
  /\ Quiescent
  /\ IF workflowStatus # "progressing"
       THEN Commit(Cur, "onPause", NoNode)
       ELSE Commit([Cur EXCEPT !.ws = "paused"], "onPause", NoNode)

onStop ==
  /\ Quiescent
  /\ Commit(onStopState(Cur), "onStop", NoNode)

\* onStatusDotClick without its status check: retryNodeInput for any node.
onStatusDotClickUnguarded ==
  /\ Quiescent
  /\ \E id \in DOMAIN nodes : Commit(retryNodeInput(Cur, id), "retryNodeInput", id)

\* App.tsx onStatusDotClick: retryNodeInput for a node shown as WAITING, and
\* nothing for any other node.
onStatusDotClick ==
  /\ Quiescent
  /\ \E id \in DOMAIN nodes :
       IF nodes[id].status # WAITING
         THEN Commit(Cur, "retryNodeInput", id)
         ELSE Commit(retryNodeInput(Cur, id), "retryNodeInput", id)

\* The external executor resolves one outstanding call with one of results.
ExecutorResolvesWith(results) ==
  /\ Quiescent
  /\ \E c \in BagToSet(co) : \E result \in results :
       /\ c.pc = "exec"
       /\ LET s == DelCo(Cur, c)
          IN  IF c.k = "retry"
                THEN Commit(retryAfterExec(s, c, result), "ExecutorResolves", c.n)
                ELSE LET f == resolveExec(s, c, result)
                     IN  Commit(afterTask(f.s, c, f.out), "ExecutorResolves", c.n)

ExecutorResolves == ExecutorResolvesWith(ExecResults)

ExecutorResolvesAny == ExecutorResolvesWith(TwoResults)

\* The external executor rejects one outstanding call.
ExecutorRejects ==
  /\ Quiescent
  /\ \E c \in BagToSet(co) :
       /\ c.pc = "exec"
       /\ LET s == DelCo(Cur, c)
          IN  IF c.k = "retry"
                THEN Commit(catchToWaiting(s, c.n), "ExecutorRejects", c.n)
                ELSE LET f == rejectExec(s, c)
                     IN  Commit(afterTask(f.s, c, f.out), "ExecutorRejects", c.n)

\* useWorkflowInputModal.handleSubmit: the outstanding request resolves with
\* values; validOnly: every field is filled.
FormSubmittedWith(validOnly) ==
  /\ Quiescent
  /\ \E c \in BagToSet(co) :
       /\ c.pc = "fill"
       /\ InFlight(c.n) < MaxInFlight
       /\ \E values \in IF validOnly THEN ValidValues(c.n) ELSE SubmitValues(c.n) :
            LET s == DelCo(Cur, c)
            IN  IF c.k = "retry"
                  THEN Commit(retryAfterFill(s, c, values), "FormSubmitted", c.n)
                  ELSE Commit(afterFill(s, c, values), "FormSubmitted", c.n)

FormSubmitted == FormSubmittedWith(FALSE)

FormSubmittedValid == FormSubmittedWith(TRUE)

RejectedFill(s, c) ==
  IF c.k = "retry" THEN catchToWaiting(s, c.n)
  ELSE LET f == rejectExec(s, c) IN afterTask(f.s, c, f.out)

\* useWorkflowInputModal.closeModal: the outstanding request is rejected.
FormClosed ==
  /\ Quiescent
  /\ \E c \in BagToSet(co) :
       /\ c.pc = "fill"
       /\ Commit(RejectedFill(DelCo(Cur, c), c), "FormClosed", c.n)

\* The continuation of a request that a newer request replaced.
FormReplaced ==
  \E c \in BagToSet(co) :
    /\ c.pc = "fillRej"
    /\ Commit(RejectedFill(DelCo(Cur, c), c), "FormReplaced", c.n)

\* executeWorkflow after `await Promise.all(startNoInputTasks)`: runQueue().
executeWorkflowResume ==
  \E c \in BagToSet(co) :
    /\ MainReady(c)
    /\ Commit(runQueue(DelCo(Cur, c)), "executeWorkflowResume", NoNode)

\* runQueue after `await Promise.all(tasks)`: the loop goes round.
runQueueResume ==
  \E c \in BagToSet(co) :
    /\ RunQueueReady(c)
    /\ Commit(runQueueLoop(DelCo(Cur, c), c.r), "runQueueResume", NoNode)

\* processPendingInputs after `await executeNodeWithInputs(...)` returned.
processPendingInputsResume ==
  \E c \in BagToSet(co) :
    /\ PendReady(c)
    /\ Commit(processPendingInputsNext(DelCo(Cur, c), c.n, c.pc),
              "processPendingInputsResume", c.n)

Init ==
  /\ graph \in Graphs
  /\ workflowStatus = "stopped"
  /\ nodes = EmptyValues
  /\ links = << >>
  /\ pendingInputs = << >>
  /\ activeRun = 0
  /\ runs = << >>
  /\ co = EmptyBag
  /\ called = << >>
  /\ lastOp = [op |-> "init", id |-> NoNode, was |-> "stopped"]
  /\ lgraph = EmptyLGraph

Next ==
  \/ onRun
  \/ onPause
  \/ onStop
  \/ onStatusDotClick
  \/ ExecutorResolves
  \/ ExecutorRejects
  \/ FormSubmitted
  \/ FormClosed
  \/ FormReplaced
  \/ executeWorkflowResume
  \/ runQueueResume
  \/ processPendingInputsResume

Spec == Init /\ [][Next]_vars

(***************************************************************************)
(* One run fewer per behaviour, so that with MaxRuns = 2 no completion of  *)
(* an earlier run is ever outstanding; the three-root graph and the two    *)
(* chains are explored here as well.                                       *)
(***************************************************************************)
InitOne ==
  /\ graph \in Graphs \cup { RootsGraph, TwoChainsGraph }
  /\ workflowStatus = "stopped"
  /\ nodes = EmptyValues
  /\ links = << >>
  /\ pendingInputs = << >>
  /\ activeRun = 0
  /\ runs = << >>
  /\ co = EmptyBag
  /\ called = << >>
  /\ lastOp = [op |-> "init", id |-> NoNode, was |-> "stopped"]
  /\ lgraph = EmptyLGraph

NextOne ==
  \/ onRunOnce
  \/ onPause
  \/ onStop
  \/ onStatusDotClick
  \/ ExecutorResolves
  \/ ExecutorRejects
  \/ FormSubmitted
  \/ FormClosed
  \/ FormReplaced
  \/ executeWorkflowResume
  \/ runQueueResume
  \/ processPendingInputsResume

SpecOne == InitOne /\ [][NextOne]_vars

(***************************************************************************)
(* One run on the joins, where the executor answers with either of two     *)
(* results.                                                                *)
(***************************************************************************)
InitValues ==
  /\ graph \in { JoinGraph, FormsJoinGraph }
  /\ workflowStatus = "stopped"
  /\ nodes = EmptyValues
  /\ links = << >>
  /\ pendingInputs = << >>
  /\ activeRun = 0
  /\ runs = << >>
  /\ co = EmptyBag
  /\ called = << >>
  /\ lastOp = [op |-> "init", id |-> NoNode, was |-> "stopped"]
  /\ lgraph = EmptyLGraph

NextValues ==
  \/ onRunOnce
  \/ onPause
  \/ onStop
  \/ onStatusDotClick
  \/ ExecutorResolvesAny
  \/ ExecutorRejects
  \/ FormSubmitted
  \/ FormClosed
  \/ FormReplaced
  \/ executeWorkflowResume
  \/ runQueueResume
  \/ processPendingInputsResume

SpecValues == InitValues /\ [][NextValues]_vars

(***************************************************************************)
(* One run in which nothing goes wrong and nobody interferes: every        *)
(* executor call resolves, every form is submitted with valid values, and  *)
(* no pause, stop or retry is issued; in its graphs every required port is *)
(* supplied by a link or asked for in a form, and every link joins two     *)
(* nodes.                                                                  *)
(***************************************************************************)
InitCalm ==
  /\ graph \in (Graphs \ { PartialGraph, DanglingGraph })
                \cup { RootsGraph, FanGraph, TwoChainsGraph }
  /\ workflowStatus = "stopped"
  /\ nodes = EmptyValues
  /\ links = << >>
  /\ pendingInputs = << >>
  /\ activeRun = 0
  /\ runs = << >>
  /\ co = EmptyBag
  /\ called = << >>
  /\ lastOp = [op |-> "init", id |-> NoNode, was |-> "stopped"]
  /\ lgraph = EmptyLGraph

NextCalm ==
  \/ onRunOnce
  \/ ExecutorResolves
  \/ FormSubmittedValid
  \/ executeWorkflowResume
  \/ runQueueResume
  \/ processPendingInputsResume

SpecCalm == InitCalm /\ [][NextCalm]_vars

\* The same run where nothing is kept waiting for ever: the executor settles
\* every call, the user answers every form, and the event loop runs every
\* scheduled continuation.
SpecCalmFair == SpecCalm /\ WF_vars(NextCalm)

(***************************************************************************)
(* The canvas on its own: links are drawn between existing slots and       *)
(* removed, in any order; the workflow store stays as constructed.         *)
(***************************************************************************)
CanvasStep(g, op, id) ==
  /\ lgraph' = g
  /\ lastOp' = [op |-> op, id |-> id, was |-> workflowStatus]
  /\ UNCHANGED << graph, workflowStatus, nodes, links, pendingInputs, activeRun,
                  runs, co, called >>

\* LGraph.connect, called with an output slot and an input slot; id records
\* whether the input slot had a link.
connectCall ==
  /\ lgraph.lastLinkId < MaxLinks
  /\ \E fromNode \in CanvasNodes, toNode \in CanvasNodes :
       \E fromSlot \in 1..NumOutputs, toSlot \in 1..NumInputs :
         CanvasStep(connect(lgraph, fromNode, fromSlot, toNode, toSlot), "connect",
                    IF lgraph.inputs[toNode][toSlot] # 0 THEN "replaced" ELSE NoNode)

\* LGraph.removeLink, called with the id of a link that may be gone already.
removeLinkCall ==
  \E linkId \in 1..MaxLinks :
    CanvasStep(removeLink(lgraph, linkId), "removeLink", NoNode)

InitCanvas ==
  /\ graph = ChainGraph
  /\ workflowStatus = "stopped"
  /\ nodes = EmptyValues
  /\ links = << >>
  /\ pendingInputs = << >>
  /\ activeRun = 0
  /\ runs = << >>
  /\ co = EmptyBag
  /\ called = << >>
  /\ lastOp = [op |-> "init", id |-> NoNode, was |-> "stopped"]
  /\ lgraph = EmptyLGraph

NextCanvas ==
  \/ connectCall
  \/ removeLinkCall

SpecCanvas == InitCanvas /\ [][NextCanvas]_vars


(***************************************************************************)
(* Properties of the engine.                                               *)
(***************************************************************************)

\* The executor calls that are outstanding, and the Input Resolver requests
\* that are outstanding or whose rejection is about to be delivered.
Outstanding == { c \in BagToSet(co) : c.pc \in {"exec", "fill", "fillRej"} }

\* Node id has completed: it is DONE, or some run holds a result for it.
ReachedDone(id) ==
  \/ nodes'[id].status = DONE
  \/ \E r \in 1..Len(runs') : id \in DOMAIN runs'[r].results

\* C1: whenever a step calls the executor for a node, every node with a link
\* into that node has completed (it is DONE or a run holds its result); this
\* holds for every interleaving, pause, resume and retry included.  Here the
\* completion of a start task of a stopped run counts in the next run, so a
\* join is launched while one of its dependencies still waits for its input.
C1_DependenciesDoneBeforeStart ==
  [][\A k \in 1..Len(called') :
       \A i \in 1..Len(graph.links) :
         graph.links[i].toNodeId = called'[k]
           => ReachedDone(graph.links[i].fromNodeId)]_vars

\* C2: within one run the executor is invoked at most once per node: a step
\* never calls it twice for one node, never calls it for a node whose earlier
\* call of the same run is still outstanding, and never for a node whose
\* result the run already holds.
C2_ExecutorOncePerNode ==
  [][\A k \in 1..Len(called') :
       /\ \A k2 \in 1..Len(called') : called'[k2] = called'[k] => k2 = k
       /\ Len(runs') = Len(runs) =>
            /\ InFlight(called'[k]) = 0
            /\ activeRun # 0 => called'[k] \notin DOMAIN runs[activeRun].results]_vars

\* C3: remainingDeps of a node is decremented once per incoming link, so it
\* never goes below zero.
C3_RemainingDepsNeverNegative ==
  \A r \in 1..Len(runs) :
    \A id \in DOMAIN runs[r].remainingDeps \cap NodeIds(graph) :
      runs[r].remainingDeps[id] >= 0

\* C4: when a step other than onStop has taken workflowStatus from
\* "progressing" to "stopped", the ready queue is empty, no executor call and
\* no Input Resolver request is outstanding, and no node is WAITING.
C4_StoppedOnlyWhenIdle ==
  (lastOp.was = "progressing" /\ workflowStatus = "stopped" /\ lastOp.op # "onStop")
    => /\ activeRun # 0 => runs[activeRun].queue = << >>
       /\ Outstanding = {}
       /\ \A id \in DOMAIN nodes : nodes[id].status # WAITING

\* C5: in a run where every executor call resolves, every form is submitted
\* with valid values and no pause or stop is issued, the engine comes to rest
\* (nothing suspended, nothing outstanding) only with every node DONE.
C5_CalmRunEndsAllDone ==
  (Len(runs) > 0 /\ co = EmptyBag)
    => \A id \in DOMAIN nodes : nodes[id].status = DONE

\* C6: right after the executor rejected for a node, that node is ERROR and
\* workflowStatus is "paused".
C6_ExecutorFailurePauses ==
  lastOp.op = "ExecutorRejects"
    => /\ nodes[lastOp.id].status = ERROR
       /\ workflowStatus = "paused"

\* C7: right after onStop, workflowStatus is "stopped", every node is PENDING
\* with empty inputFormValues and undefined outputValue, every link is
\* PENDING, pendingInputs is empty and there is no active run.
C7_StopResetsEverything ==
  lastOp.op = "onStop"
    => /\ workflowStatus = "stopped"
       /\ \A id \in DOMAIN nodes :
            /\ nodes[id].status = PENDING
            /\ nodes[id].inputFormValues = EmptyValues
            /\ nodes[id].outputValue = Undefined
       /\ \A i \in 1..Len(links) : links[i] = PENDING
       /\ pendingInputs = << >>
       /\ activeRun = 0

\* onStop has hit a run in progress that already held a result and still had
\* work suspended.
C7_StoppedMidRun ==
  /\ lastOp.op = "onStop"
  /\ lastOp.was = "progressing"
  /\ co # EmptyBag
  /\ DOMAIN runs[Len(runs)].results # {}

\* C8: while there is no active run (onStop discarded it and no new run was
\* started), the completion of an executor call or of an Input Resolver
\* request changes nothing of the store and of the runs.
C8_StaleCompletionsIgnored ==
  [][(/\ activeRun = 0
      /\ lastOp'.op \in {"ExecutorResolves", "ExecutorRejects", "FormSubmitted",
                         "FormClosed", "FormReplaced"})
       => UNCHANGED << workflowStatus, nodes, links, pendingInputs, activeRun, runs >>]_vars

\* C9: onRun while workflowStatus is "progressing", and onPause while it is
\* not "progressing", leave the whole engine state as it was.
C9_RunAndPauseNoOps ==
  [][(\/ lastOp'.op = "onRun" /\ workflowStatus = "progressing"
      \/ lastOp'.op = "onPause" /\ workflowStatus # "progressing")
       => UNCHANGED << workflowStatus, nodes, links, pendingInputs, activeRun, runs, co >>]_vars

\* onRun was called on a progressing run that had work suspended.
C9_RunWhileProgressing ==
  /\ lastOp.op = "onRun"
  /\ lastOp.was = "progressing"
  /\ co # EmptyBag

\* The pendingInputs entries that were never handed to the Input Resolver.
NotRequested(items) == { i \in 1..Len(items) : items[i].formValue = << >> }

\* C10: onRun on a paused run keeps the active run, its results and its
\* remainingDeps, and every root whose input was not requested before the
\* pause is still going to be asked for: processPendingInputs is suspended
\* and will go on with it.
C10_ResumeContinuesRun ==
  [][(workflowStatus = "paused" /\ lastOp'.op = "onRun")
       => /\ activeRun' = activeRun
          /\ runs'[activeRun].results = runs[activeRun].results
          /\ runs'[activeRun].remainingDeps = runs[activeRun].remainingDeps
          /\ NotRequested(pendingInputs') # {}
               => \E c \in BagToSet(co') : c.k = "pend"]_vars

\* The nodes a step launches besides the node the step is about: they were
\* PENDING or WAITING and are PROGRESSING or ERROR after the step.
NewlyLaunched ==
  { id \in DOMAIN nodes \cap DOMAIN nodes' :
      /\ id # lastOp'.id
      /\ nodes[id].status \in {PENDING, WAITING}
      /\ nodes'[id].status \in {PROGRESSING, ERROR} }

\* C11: while workflowStatus is "paused" or "stopped", no step other than
\* onRun launches a node or calls the executor for any node but the one the
\* step is about: not the continuation of a task that completes, and not the
\* drain of retryNodeInput.
C11_NoLaunchWhileNotProgressing ==
  [][(workflowStatus \in {"paused", "stopped"} /\ lastOp'.op # "onRun")
       => /\ NewlyLaunched = {}
          /\ \A k \in 1..Len(called') : called'[k] = lastOp'.id]_vars

\* The transitions of workflowStatus.
StatusTransitions ==
  { << "stopped", "progressing" >>, << "progressing", "paused" >>,
    << "progressing", "stopped" >>, << "paused", "progressing" >>,
    << "paused", "stopped" >> }

\* C12: a step that changes workflowStatus takes it along one of
\* stopped->progressing, progressing->paused, progressing->stopped,
\* paused->progressing, paused->stopped; it never goes from stopped to paused.
C12_StatusTransitions ==
  lastOp.was # workflowStatus => << lastOp.was, workflowStatus >> \in StatusTransitions

\* onPause was called on a run that the scheduler had stopped, and the
\* status stayed "stopped".
C12_PauseWhileStopped ==
  /\ lastOp.op = "onPause"
  /\ lastOp.was = "stopped"
  /\ workflowStatus = "stopped"
  /\ activeRun # 0

\* The status of id, a node that is not in the list counting as PENDING.
StatusOf(id) == IF id \in DOMAIN nodes THEN nodes[id].status ELSE PENDING

\* C13: a link is DONE if and only if its source node is DONE.
C13_LinkMirrorsSource ==
  \A i \in 1..Len(links) :
    links[i] = DONE <=> StatusOf(graph.links[i].fromNodeId) = DONE

\* C14: a node has an outputValue only while it is DONE, and an outputValue
\* set in a run stays as it is for the rest of that run.
C14_OutputOnlyWhenDone ==
  [][/\ \A id \in DOMAIN nodes' :
          nodes'[id].outputValue # Undefined => nodes'[id].status = DONE
     /\ (activeRun # 0 /\ activeRun' = activeRun) =>
          \A id \in DOMAIN nodes :
            nodes[id].outputValue # Undefined
              => nodes'[id].outputValue = nodes[id].outputValue]_vars

\* Node id is waiting for its input in state [nodes |-> ns, pend |-> items]:
\* it is WAITING, or PROGRESSING with its form open, and pendingInputs holds
\* an entry for it that is not done.
AwaitsInput(id, ns, items) ==
  /\ ns[id].status \in {WAITING, PROGRESSING}
  /\ \E i \in 1..Len(items) :
       items[i].nodeId = id /\ items[i].status \in {"pending", "waiting"}

\* C15: when a step of the active run launches a node (it leaves PENDING or
\* WAITING) that has a required port for which the results of its incoming
\* links supply no value, the node is then waiting for its input with an
\* entry in pendingInputs, and is not ERROR; this includes nodes that have
\* incoming links on other ports.
C15_MissingInputWaits ==
  [][\A id \in DOMAIN nodes :
       (/\ activeRun # 0
        /\ activeRun' = activeRun
        /\ nodes[id].status \in {PENDING, WAITING}
        /\ nodes'[id].status \notin {PENDING, WAITING}
        /\ getRequiredMissing(toInputForms(graph, id),
                              buildFormValueFromOutputs(id, runs'[activeRun])))
         => AwaitsInput(id, nodes', pendingInputs')]_vars

\* The status of node id, PENDING before the first run.
\* C16: with the chains n -> t and s -> u, once s and u are DONE while n's
\* form is still open, n and t become DONE as well (the form is eventually
\* submitted with valid values and every executor call resolves).
C16_InputChainCompletesAfterOther ==
  (/\ graph = TwoChainsGraph
   /\ StatusOf("s") = DONE
   /\ StatusOf("u") = DONE
   /\ \E c \in BagToSet(co) : c.n = "n" /\ c.pc = "fill")
    ~> (StatusOf("n") = DONE /\ StatusOf("t") = DONE)

RetryResumed(id, pc) ==
  { c \in BagToSet(co) : /\ c.k = "retry" /\ c.n = id /\ c.pc = pc
                         /\ activeRun = c.r
                         /\ CopiesIn(c, co') < CopiesIn(c, co) }

LinksFromTo(id, d) ==
  { i \in 1..Len(graph.links) :
      graph.links[i].fromNodeId = id /\ graph.links[i].toNodeId = d }

Dependents(id) == { graph.links[i].toNodeId : i \in
                      { j \in 1..Len(graph.links) : graph.links[j].fromNodeId = id } }

\* Node d is executed by this step, or is queued for a loop of run r that is
\* suspended and will go round again.
ExecutedOrScheduled(d, r) ==
  \/ \E k \in 1..Len(called') : called'[k] = d
  \/ nodes'[d].status = ERROR
  \/ /\ \E k \in 1..Len(runs'[r].queue) : runs'[r].queue[k] = d
     /\ \E x \in BagToSet(co') : x.k \in {"runQueue", "drain"} /\ x.r = r

\* C18: in a run that is still the active one, a retryNodeInput whose form is
\* submitted with valid values calls the executor of its node with those
\* values; when that call resolves the node is DONE with the result as its
\* output and the submitted values as its input, its outgoing links are DONE,
\* every dependent's remainingDeps went down by the number of those links, and
\* a dependent that reached zero is executed (or queued for a live loop).
C18_RetryCompletesNode ==
  [][/\ \A c \in RetryResumed(lastOp'.id, "fill") :
          lastOp'.op = "FormSubmitted" =>
            \/ nodes'[c.n].status = ERROR
            \/ /\ called' = << c.n >>
               /\ \E v \in ValidValues(c.n) :
                    [c EXCEPT !.pc = "exec", !.vals = v] \in BagToSet(co')
     /\ \A c \in RetryResumed(lastOp'.id, "exec") :
          lastOp'.op = "ExecutorResolves" =>
            /\ nodes'[c.n].status = DONE
            /\ nodes'[c.n].inputFormValues = c.vals
            /\ nodes'[c.n].outputValue \in ExecResults
            /\ runs'[c.r].results[c.n] = nodes'[c.n].outputValue
            /\ \A d \in Dependents(c.n) :
                 /\ \A i \in LinksFromTo(c.n, d) : links'[i] = DONE
                 /\ runs'[c.r].remainingDeps[d] =
                      runs[c.r].remainingDeps[d] - Cardinality(LinksFromTo(c.n, d))
                 /\ runs'[c.r].remainingDeps[d] = 0 => ExecutedOrScheduled(d, c.r)]_vars

EngineActsOn(id) ==
  { c \in BagToSet(co') : /\ c.n = id /\ c.k # "retry" /\ c.pc \in {"fill", "exec"}
                          /\ CopiesIn(c, co') > CopiesIn(c, co) }

\* C20: while a node is ERROR, no step other than a retry-input for that node
\* or the start of a fresh run makes the engine request the node's input or
\* call its executor.
C20_ErrorNotRetriedByEngine ==
  [][\A id \in DOMAIN nodes :
       (/\ nodes[id].status = ERROR
        /\ activeRun' = activeRun
        /\ ~(lastOp'.op = "retryNodeInput" /\ lastOp'.id = id))
       => EngineActsOn(id) = {}]_vars

(***************************************************************************)
(* C21.  Dangling links.                                                   *)
(***************************************************************************)
\* The links into node id whose source is a node of the list as well.
LiveIncoming(id) ==
  { i \in 1..Len(graph.links) :
      /\ graph.links[i].toNodeId = id
      /\ graph.links[i].fromNodeId \in NodeIds(graph) }

\* C21: right after a run started, remainingDeps of every node counts the
\* links into it that come from a node of the list, dangling links left out,
\* and every node without such a link has been started (it is no longer
\* PENDING).
C21_DanglingLinksIgnored ==
  (lastOp.op = "onRun" /\ lastOp.was = "stopped" /\ activeRun # 0)
    => \A id \in DOMAIN nodes :
         /\ runs[activeRun].remainingDeps[id] = Cardinality(LiveIncoming(id))
         /\ LiveIncoming(id) = {} => nodes[id].status # PENDING

(***************************************************************************)
(* C22.  The start of a run.                                               *)
(***************************************************************************)
\* The last step was onRun from "stopped": it built a new run.
RunJustStarted == lastOp.op = "onRun" /\ lastOp.was = "stopped" /\ activeRun # 0

ZeroIncoming == { id \in NodeIds(graph) : Len(incoming(graph, id)) = 0 }

\* C22: right after a run started from "stopped", remainingDeps of every node
\* is the number of links into it, results is empty, nodes and links are those
\* of the graph snapshot with no input, no output and every link PENDING, and
\* the started nodes are exactly those without an incoming link: the executor
\* was called for those without a form, those with a form have a
\* pendingInputs entry, and every other node is PENDING.
C22_RunStartsFromSnapshot ==
  RunJustStarted =>
    /\ DOMAIN runs[activeRun].remainingDeps = NodeIds(graph)
    /\ \A id \in NodeIds(graph) :
         runs[activeRun].remainingDeps[id] = Len(incoming(graph, id))
    /\ runs[activeRun].results = EmptyValues
    /\ DOMAIN nodes = NodeIds(graph)
    /\ \A id \in DOMAIN nodes :
         /\ nodes[id].outputValue = Undefined
         /\ nodes[id].inputFormValues = EmptyValues
         /\ nodes[id].status # PENDING <=> id \in ZeroIncoming
    /\ links = [ i \in 1..Len(graph.links) |-> PENDING ]
    /\ Range(called) = { id \in ZeroIncoming : Len(toInputForms(graph, id)) = 0 }
    /\ { pendingInputs[i].nodeId : i \in 1..Len(pendingInputs) }
         = { id \in ZeroIncoming : Len(toInputForms(graph, id)) > 0 }

\* A second run has just started after the first one had stored a result and
\* decremented a counter.
C22_SecondRunStarted ==
  /\ RunJustStarted
  /\ activeRun = 2
  /\ runs[1].results # EmptyValues
  /\ \E id \in NodeIds(graph) :
       runs[1].remainingDeps[id] < Len(incoming(graph, id))

(***************************************************************************)
(* C23.  Which requests a new Input Resolver request rejects.              *)
(***************************************************************************)
\* The requests this step rejects as "replaced".
ReplacedNow ==
  { c \in BagToSet(co) : /\ c.pc = "fill"
                         /\ CopiesIn(c, co') < CopiesIn(c, co)
                         /\ CopiesIn([c EXCEPT !.pc = "fillRej"], co')
                              > CopiesIn([c EXCEPT !.pc = "fillRej"], co) }

\* The requests this step issues.
RequestedNow ==
  { c \in BagToSet(co') : c.pc = "fill" /\ CopiesIn(c, co') > CopiesIn(c, co) }

\* C23: an outstanding request for node A is rejected as replaced only by a
\* newer request for A itself; a request issued for another node leaves it
\* outstanding.
C23_ReplacedOnlyBySameNode ==
  [][\A c \in ReplacedNow : \A d \in RequestedNow : d.n = c.n]_vars

(***************************************************************************)
(* C24.  Ready nodes are not serialized.                                   *)
(***************************************************************************)
\* The nodes whose remainingDeps reaches zero in this step of the active run.
BecomesReady ==
  IF activeRun = 0 \/ activeRun' # activeRun THEN {}
  ELSE { d \in DOMAIN nodes :
           /\ runs[activeRun].remainingDeps[d] # 0
           /\ runs'[activeRun].remainingDeps[d] = 0 }

\* An executor call is outstanding after this step for a node other than d
\* that has no link into d.
OtherInFlight(d) ==
  \E x \in BagToSet(co') :
    /\ x.pc = "exec"
    /\ x.n # d
    /\ \A i \in 1..Len(graph.links) :
         ~(graph.links[i].fromNodeId = x.n /\ graph.links[i].toNodeId = d)

\* C24: while the workflow is progressing, a node whose remainingDeps reaches
\* zero in a step is started in that step (it is no longer PENDING) even if
\* executor calls for nodes of other branches are outstanding.
C24_ReadyNodesNotSerialized ==
  [][\A d \in BecomesReady :
       (workflowStatus' = "progressing" /\ OtherInFlight(d))
         => nodes'[d].status # PENDING]_vars

(***************************************************************************)
(* C25.  A failed required-field check.                                    *)
(***************************************************************************)
\* The nodes this step sets to ERROR.
FailsCheck == { id \in DOMAIN nodes \cap DOMAIN nodes' :
                  nodes[id].status # ERROR /\ nodes'[id].status = ERROR }

\* The links into d whose source this step makes DONE.
CompletedInto(d) ==
  { i \in 1..Len(graph.links) :
      /\ graph.links[i].toNodeId = d
      /\ StatusOf(graph.links[i].fromNodeId) # DONE
      /\ graph.links[i].fromNodeId \in DOMAIN nodes'
      /\ nodes'[graph.links[i].fromNodeId].status = DONE }

\* C25: a step that sets a node to ERROR (the only cause being the
\* required-field check) does not call the node's executor, stores no result
\* for it, and leaves its dependents PENDING-or-as-they-were with their
\* remainingDeps untouched by it (only links from nodes completed in the same
\* step are counted off); when the failing values came from a submitted form,
\* the step changes no other node, no link and no run record at all.
C25_CheckFailureConfined ==
  [][\A id \in FailsCheck :
       /\ \A k \in 1..Len(called') : called'[k] # id
       /\ activeRun' = activeRun
       /\ nodes'[id].outputValue = nodes[id].outputValue
       /\ activeRun # 0 =>
            /\ (id \in DOMAIN runs'[activeRun].results
                  => id \in DOMAIN runs[activeRun].results)
            /\ \A d \in Dependents(id) \cap DOMAIN nodes :
                 /\ runs'[activeRun].remainingDeps[d] =
                      runs[activeRun].remainingDeps[d] - Cardinality(CompletedInto(d))
                 /\ nodes'[d].status = nodes[d].status
       /\ lastOp'.op = "FormSubmitted" =>
            /\ lastOp'.id = id
            /\ \A x \in DOMAIN nodes : x # id => nodes'[x] = nodes[x]
            /\ UNCHANGED << links, runs, workflowStatus, pendingInputs >>
            /\ called' = << >>]_vars

\* A form was submitted with a blank required field in an active run: the
\* node is ERROR while its dependent is PENDING.
C25_FormFailedCheck ==
  /\ lastOp.op = "FormSubmitted"
  /\ activeRun # 0
  /\ nodes[lastOp.id].status = ERROR
  /\ \E d \in Dependents(lastOp.id) : StatusOf(d) = PENDING

\* A linked node failed the check when it was launched: it is ERROR, the run
\* holds no result for it, and its dependent is PENDING.
C25_LinkedFailedCheck ==
  \E id \in DOMAIN nodes :
    /\ nodes[id].status = ERROR
    /\ Len(incoming(graph, id)) > 0
    /\ activeRun # 0
    /\ id \notin DOMAIN runs[activeRun].results
    /\ \E d \in Dependents(id) : StatusOf(d) = PENDING

(***************************************************************************)
(* C26.  What the executor of a linked node is called with.                *)
(***************************************************************************)
\* The executor calls this step makes for nodes with incoming links.
LinkedCallsNow ==
  { c \in BagToSet(co') : /\ c.pc = "exec"
                          /\ CopiesIn(c, co') > CopiesIn(c, co)
                          /\ Len(incoming(graph, c.n)) > 0 }

\* C26: when the executor is called for a node with incoming links, the input
\* named by the port at each link's toSlot is the output that the current run
\* holds for the link's source (and is absent if the run holds none), and the
\* propertyValues are those the node got from the graph at the start of the
\* run.
C26_LinkedInputsFromResults ==
  [][\A c \in LinkedCallsNow :
       /\ activeRun' # 0
       /\ \E k \in 1..Len(called') : called'[k] = c.n
       /\ \A i \in 1..Len(graph.links) :
            (graph.links[i].toNodeId = c.n
               /\ graph.links[i].toSlot \in 1..Len(graph.inputs[c.n]))
            => LET name == graph.inputs[c.n][graph.links[i].toSlot].name
                   from == graph.links[i].fromNodeId
                   results == runs'[activeRun'].results
               IN  IF from \in DOMAIN results
                     THEN name \in DOMAIN c.vals /\ c.vals[name] = results[from]
                     ELSE name \notin DOMAIN c.vals
       /\ c.props = properties(graph, c.n)
       /\ c.props = nodes'[c.n].propertyValues]_vars

\* The executor call for the join j is outstanding with different values on
\* its two ports, while the run holds different results for j's two sources.
C26_JoinCalledWithBoth ==
  /\ activeRun # 0
  /\ \E c \in BagToSet(co) :
       /\ c.pc = "exec" /\ c.n = "j"
       /\ DOMAIN c.vals = {"a", "b"}
       /\ c.vals["a"] # c.vals["b"]
       /\ c.props # EmptyValues

(***************************************************************************)
(* C27.  One queue-draining loop per run.                                  *)
(***************************************************************************)
\* The suspended loops that take nodes from the queue of run r: runQueue
\* awaiting its batch, retryNodeInput awaiting the node it drained.
Loops(r) == { c \in BagToSet(co) : c.k \in {"runQueue", "drain"} /\ c.r = r }

\* C27: at any time at most one loop is draining the queue of a run, and
\* while one is, run.isRunning is true.
C27_OneDrainPerRun ==
  \A r \in 1..Len(runs) :
    /\ Cardinality(Loops(r)) <= 1
    /\ \A c \in Loops(r) : CopiesIn(c, co) = 1 /\ runs[r].isRunning

\* A retryNodeInput has just completed its node while runQueue was awaiting
\* a batch: the dependent it made ready is in the queue and was left to
\* runQueue.
C27_RetryLeavesQueueToRunQueue ==
  /\ lastOp.op = "ExecutorResolves"
  /\ activeRun # 0
  /\ IsFormBranch(lastOp.id)
  /\ nodes[lastOp.id].status = DONE
  /\ \A c \in BagToSet(co) : ~(c.k = "pend" /\ c.n = lastOp.id)
  /\ \E c \in Loops(activeRun) : c.k = "runQueue"
  /\ runs[activeRun].queue # << >>

(***************************************************************************)
(* C28.  run.isRunning is true only while a loop is draining.              *)
(***************************************************************************)
\* C28: whenever isRunning of a run is true, a loop of that run is actually
\* draining its queue (runQueue awaiting its batch, or retryNodeInput awaiting
\* a drained node); in particular the flag is false again after a task of the
\* loop has failed.
C28_IsRunningOnlyWhileDraining ==
  \A r \in 1..Len(runs) : runs[r].isRunning => Loops(r) # {}

(***************************************************************************)
(* C29.  Leaving "paused".                                                 *)
(***************************************************************************)
\* C29: a step that takes workflowStatus away from "paused" is onRun or
\* onStop, and onStop leaves it "stopped"; onRun writes "progressing" (its
\* runQueue may go on to write "stopped" in the same turn when the queue is
\* empty).  No completion, continuation or retryNodeInput changes the status
\* while it is "paused".
C29_PausedLeftOnlyByRunOrStop ==
  (lastOp.was = "paused" /\ workflowStatus # "paused")
    => \/ lastOp.op = "onRun"
       \/ lastOp.op = "onStop" /\ workflowStatus = "stopped"

\* While the workflow was paused runQueue came back from its batch, found the
\* queue empty and ended: the status is still "paused".
C29_QueueEmptiedWhilePaused ==
  /\ lastOp.op = "runQueueResume"
  /\ lastOp.was = "paused"
  /\ workflowStatus = "paused"
  /\ activeRun # 0
  /\ runs[activeRun].queue = << >>
  /\ ~runs[activeRun].isRunning

(***************************************************************************)
(* C30.  The canvas graph: one link per input slot.                        *)
(***************************************************************************)
\* The links of the map that target input slot i of node n.
LinksInto(g, n, i) ==
  { x \in DOMAIN g.links : g.links[x].toNodeId = n /\ g.links[x].toSlot = i }

\* Every input slot is the target of at most one link of the map, and a
\* slot's linkId is the id of a link of the map that targets the slot.
SlotsConsistent(g) ==
  \A n \in g.nodes : \A i \in 1..NumInputs :
    /\ Cardinality(LinksInto(g, n, i)) <= 1
    /\ g.inputs[n][i] # 0 => g.inputs[n][i] \in LinksInto(g, n, i)

\* connect took the link old off the map and off every output list, and the
\* slot now has the link it created.
OldLinkDetached ==
  \A n \in CanvasNodes : \A i \in 1..NumInputs :
    LET old == lgraph.inputs[n][i]
    IN  (old # 0 /\ lgraph'.inputs[n][i] = lgraph'.lastLinkId
           /\ lgraph'.lastLinkId # lgraph.lastLinkId)
        => /\ old \notin DOMAIN lgraph'.links
           /\ \A m \in CanvasNodes : \A o \in 1..NumOutputs :
                \A k \in 1..Len(lgraph'.outputs[m][o]) : lgraph'.outputs[m][o][k] # old
           /\ LinksInto(lgraph', n, i) = { lgraph'.lastLinkId }

\* C30: after any sequence of connect and removeLink calls every input slot
\* is the target of at most one link and its linkId refers to a link of the
\* map that targets it; a connect to a slot that has a link removes that link
\* from the map and from its source's output list.
C30_OneLinkPerInputSlot ==
  [](SlotsConsistent(lgraph)) /\ [][OldLinkDetached]_vars

\* A connect has just replaced the link of an input slot while the other
\* slots of the canvas keep theirs.
C30_LinkReplaced ==
  /\ lastOp.op = "connect"
  /\ lastOp.id = "replaced"
  /\ Cardinality(DOMAIN lgraph.links) >= 2
  /\ Cardinality(DOMAIN lgraph.links) < lgraph.lastLinkId

====
